---- MODULE Spec2Model ----
(***************************************************************************)
(* NovaStream: a browser-resident video gallery (React).  The model covers *)
(* the App component's state, its event handlers and the asynchronous       *)
(* handlers' suspension points, the analysis client, and the two stores     *)
(* (the blob store and the metadata document in localStorage).              *)
(*                                                                          *)
(* A handler created by a render closes over the state values of that       *)
(* render.  A synchronous handler therefore reads the current state; an     *)
(* asynchronous handler keeps, across every await, the values it captured   *)
(* when it was invoked.  The captured values are fields of the process      *)
(* records in `uploads` and `deletions`.                                    *)
(*                                                                          *)
(* Strings the code takes apart (file names, comment texts) are sequences   *)
(* of one-character strings; strings it only stores are TLA+ strings.       *)
(* Timestamps, the thumbnail data URL and the object URLs are left out.     *)
(*                                                                          *)
(* Spec is a whole session.  SpecUpload, SpecComments and SpecDeletion are  *)
(* sessions in which the user uses a part of the interface; the Reliable    *)
(* ones are those in which no store call and no awaited step fails.         *)
(* SpecGallery is a session in a browser that already holds a video.       *)
(* SpecAnalyze is the analysis client called on its own.  `destroyed` and   *)
(* `alone` are history variables: no handler reads them.                    *)
(***************************************************************************)
EXTENDS Integers, Sequences, FiniteSets, TLC

\* ------------------------------------------------------------------ bounds
\* Number of uploads that get past validation in one session.
MaxUploads == 2
\* Number of comments posted in one session.
MaxComments == 1
\* Number of deletions confirmed in one session.
MaxDeletes == 1
\* Longest file name given to the analysis client on its own.
MaxNameLen == 3

\* --------------------------------------------------------------- constants
MAX_FILE_SIZE == 100 * 1024 * 1024
ALLOWED_MIME_TYPES == {"video/mp4", "video/webm", "video/quicktime", "video/x-matroska"}

\* pendingDeletion / activeVideo: null, and the bulk target 'all'
Null == 0
All == -1

Dot == "."
Space == " "

\* --------------------------------------------------------- string helpers
\* The index of the first occurrence of c in s at or after i, or 0.
RECURSIVE IndexFrom(_, _, _)
IndexFrom(s, c, i) ==
    IF i > Len(s) THEN 0
    ELSE IF s[i] = c THEN i
    ELSE IndexFrom(s, c, i + 1)

\* String.prototype.split(sep) for a one-character separator: the pieces
\* between the separators, in order (always at least one piece).
RECURSIVE Split(_, _)
Split(s, sep) ==
    LET i == IndexFrom(s, sep, 1)
    IN  IF i = 0 THEN <<s>>
        ELSE <<SubSeq(s, 1, i - 1)>> \o Split(SubSeq(s, i + 1, Len(s)), sep)

\* Array.prototype.pop(): the last element
Pop(a) == a[Len(a)]

IsSpace(c) == c = Space

RECURSIVE TrimStart(_)
TrimStart(s) ==
    IF s # <<>> /\ IsSpace(Head(s)) THEN TrimStart(Tail(s)) ELSE s

RECURSIVE TrimEnd(_)
TrimEnd(s) ==
    IF s # <<>> /\ IsSpace(s[Len(s)]) THEN TrimEnd(SubSeq(s, 1, Len(s) - 1)) ELSE s

\* String.prototype.trim()
Trim(s) == TrimStart(TrimEnd(s))

\* ---------------------------------------------------------------- inputs
ClipName == <<"c", "l", "i", "p", ".", "m", "p", "4">>

\* The files an administrator can select.
Files ==
    { [name |-> ClipName, type |-> "video/x-matroska", size |-> MAX_FILE_SIZE],
      [name |-> ClipName, type |-> "video/mp4",        size |-> MAX_FILE_SIZE + 1],
      [name |-> ClipName, type |-> "image/png",        size |-> 50 * 1024 * 1024],
      [name |-> ClipName, type |-> "image/png",        size |-> MAX_FILE_SIZE + 1] }

\* The texts a user can have in the comment form when it is submitted.
CommentTexts == { <<>>, <<" ">>, <<"a">>, <<" ", "a">> }

\* What the remote analysis call can do: reject (network failure, timeout),
\* or resolve with a response whose text is one of these.
ResponseTexts ==
    { "undefined", "empty", "malformed", "full", "emptyObject",
      "noTitle", "noDescription", "noTags", "null" }
Responses ==
    { [kind |-> "reject", text |-> "undefined"] }
      \cup { [kind |-> "resolve", text |-> t] : t \in ResponseTexts }

AiTitle == <<"T">>
AiDescription == "A generated description."
AiTags == <<"t1", "t2">>

\* ------------------------------------------------------- analysis client
\* JSON.parse of the response text.  A parsed value is
\* [kind |-> "object", fields |-> a record with the members present] or
\* [kind |-> "null"]; a text that is not JSON makes JSON.parse throw.
Throws == [kind |-> "throws"]
JSONParse(text) ==
    CASE text = "emptyObject"   -> [kind |-> "object", fields |-> [x \in {} |-> 0]]
      [] text = "full"          -> [kind |-> "object",
                                    fields |-> [title |-> AiTitle,
                                                description |-> AiDescription,
                                                tags |-> AiTags]]
      [] text = "noTitle"       -> [kind |-> "object",
                                    fields |-> [description |-> AiDescription,
                                                tags |-> AiTags]]
      [] text = "noDescription" -> [kind |-> "object",
                                    fields |-> [title |-> AiTitle, tags |-> AiTags]]
      [] text = "noTags"        -> [kind |-> "object",
                                    fields |-> [title |-> AiTitle,
                                                description |-> AiDescription]]
      [] text = "null"          -> [kind |-> "null"]
      [] OTHER                  -> Throws

\* The value returned from the catch block of analyzeVideoThumbnail.
Fallback(fileName) ==
    [kind |-> "object",
     fields |-> [title |-> Split(fileName, Dot)[1],
                 description |-> "No description generated.",
                 tags |-> <<"video">>]]

\* analyzeVideoThumbnail(base64Image, fileName) for a given behaviour of the
\* remote call: the value its promise resolves with (it never rejects).
analyzeVideoThumbnail(fileName, response) ==
    IF response.kind = "reject"
    THEN Fallback(fileName)
    ELSE LET text   == IF response.text \in {"undefined", "empty"}
                       THEN "emptyObject"            \* response.text || '{}'
                       ELSE response.text
             parsed == JSONParse(text)
         IN  IF parsed = Throws THEN Fallback(fileName) ELSE parsed


\* ------------------------------------------------------------ blob store
\* storageService: the blob store is the set of ids that have a blob.
saveVideoBlob(store, id) == store \cup {id}
deleteVideoBlob(store, id) == store \ {id}
clearAllBlobs(store) == {}
getVideoBlob(store, id) == id \in store

\* -------------------------------------------------------- metadata store
\* localStorage under 'novastream_videos': Absent, or the JSON text of the
\* collection.  The text is kept as the value it denotes, tagged as text.
Absent == [json |-> FALSE, value |-> <<>>]
JSONStringify(v) == [json |-> TRUE, value |-> v]
\* The initial load effect's reading of the key: nothing saved is the empty
\* collection.
LoadAll(item) == IF item.json THEN item.value ELSE <<>>

\* ----------------------------------------------------------------- state
VARIABLES
    videos,           \* useState videos: the in-memory collection
    localStorage,     \* the item under 'novastream_videos'
    blobs,            \* the blob store
    isAdmin,          \* useState isAdmin
    showLoginModal,   \* useState showLoginModal
    activeVideo,      \* id of useState activeVideo, or Null
    pendingDeletion,  \* id of useState pendingDeletion, All, or Null
    uploadStatus,     \* useState uploadStatus
    uploads,          \* handleFileUpload calls suspended at an await
    deletions,        \* confirmDeletion calls suspended at an await
    timers,           \* pending setTimeout callbacks that reset uploadStatus
    nextFileId,       \* the next crypto.randomUUID() of an upload
    nextCommentId,    \* the next crypto.randomUUID() of a comment
    nextDeletion,     \* the number of the next confirmDeletion call
    faults,           \* environment: can a store call or an awaited step fail?
    destroyed,        \* history: ids a deletion removed from the metadata
    alone,            \* history: the uploads in flight that, since they started,
                      \* ran with no other upload and no deletion in flight
    call              \* a call of the analysis client on its own

vars == <<videos, localStorage, blobs, isAdmin, showLoginModal, activeVideo,
          pendingDeletion, uploadStatus, uploads, deletions, timers,
          nextFileId, nextCommentId, nextDeletion, faults, destroyed, alone, call>>

stores == <<localStorage, blobs>>
session == <<isAdmin, showLoginModal>>
counters == <<nextFileId, nextCommentId, nextDeletion>>
fixed == <<faults, call>>
history == <<destroyed, alone>>

Ids(vs) == [i \in 1..Len(vs) |-> vs[i].id]
IdSet(vs) == {vs[i].id : i \in 1..Len(vs)}
\* The persisted metadata collection
Persisted == LoadAll(localStorage)

Status(p, s, e) == [progress |-> p, status |-> s, error |-> e]
Idle == Status(0, "idle", "")

NoCall == [fileName |-> <<>>, response |-> [kind |-> "none", text |-> "undefined"],
           done |-> FALSE, result |-> Throws]

\* The App after its mount effect, in a browser with nothing stored.
Mounted ==
    /\ videos = <<>>
    /\ localStorage = Absent
    /\ blobs = {}
    /\ isAdmin = FALSE
    /\ showLoginModal = FALSE
    /\ activeVideo = Null
    /\ pendingDeletion = Null
    /\ uploadStatus = Idle
    /\ uploads = {}
    /\ deletions = {}
    /\ timers = 0
    /\ nextFileId = 1
    /\ nextCommentId = 1
    /\ nextDeletion = 1
    /\ destroyed = {}
    /\ alone = {}

Init ==
    /\ Mounted
    /\ faults \in BOOLEAN
    /\ call = NoCall

\* ... in an environment where no store call or awaited step ever fails
InitReliable ==
    /\ Mounted
    /\ faults = FALSE
    /\ call = NoCall

\* What localStorage.setItem can do: store the text, or throw
\* (QuotaExceededError) and leave the item as it was.
SetItemOutcomes == IF faults THEN {"ok", "throws"} ELSE {"ok"}
\* What an awaited promise can do: resolve, or reject.
AwaitOutcomes == IF faults THEN {"ok", "rejects"} ELSE {"ok"}

saveToLocalStorage(updatedVideos, outcome) ==
    IF outcome = "ok" THEN JSONStringify(updatedVideos) ELSE localStorage

\* ---------------------------------------------------------------- session
ADMIN_PASSWORD == <<"e", "r", "t", "1", "2", "3">>

OpenLoginModal ==
    /\ ~isAdmin
    /\ showLoginModal' = TRUE
    /\ UNCHANGED <<videos, stores, isAdmin, activeVideo, pendingDeletion, uploadStatus,
                   uploads, deletions, timers, counters, history, fixed>>

CancelLogin ==
    /\ showLoginModal
    /\ showLoginModal' = FALSE
    /\ UNCHANGED <<videos, stores, isAdmin, activeVideo, pendingDeletion, uploadStatus,
                   uploads, deletions, timers, counters, history, fixed>>

handleLogin ==
    /\ showLoginModal
    /\ \E passwordInput \in {ADMIN_PASSWORD, <<"x">>} :
         IF passwordInput = ADMIN_PASSWORD
         THEN /\ isAdmin' = TRUE
              /\ showLoginModal' = FALSE
         ELSE UNCHANGED session                \* setLoginError
    /\ UNCHANGED <<videos, stores, activeVideo, pendingDeletion, uploadStatus,
                   uploads, deletions, timers, counters, history, fixed>>

handleLogout ==
    /\ isAdmin
    /\ isAdmin' = FALSE
    /\ UNCHANGED <<videos, stores, showLoginModal, activeVideo, pendingDeletion,
                   uploadStatus, uploads, deletions, timers, counters, history, fixed>>

\* ---------------------------------------------------------------- player
\* activeVideo is kept as the id of the open video.  handleOpenVideo only
\* reads the blob store before it sets activeVideo, so its await is folded
\* into one step, taken when getVideoBlob answers.
handleOpenVideo ==
    /\ \E i \in 1..Len(videos) :
         IF getVideoBlob(blobs, videos[i].id)
         THEN activeVideo' = videos[i].id
         ELSE UNCHANGED activeVideo          \* alert("Video data missing")
    /\ UNCHANGED <<videos, stores, session, pendingDeletion, uploadStatus,
                   uploads, deletions, timers, counters, history, fixed>>

handleCloseVideo ==
    /\ activeVideo # Null
    /\ activeVideo' = Null
    /\ UNCHANGED <<videos, stores, session, pendingDeletion, uploadStatus,
                   uploads, deletions, timers, counters, history, fixed>>

\* --------------------------------------------------------------- comments
\* (a comment whose author label is the guest's whatever the role)
NewCommentMutant(id, text, admin) ==
    [id |-> id,
     author |-> "Guest User",
     text |-> text,
     isAdmin |-> admin]
\* the Comment literal of handleAddComment
NewComment(id, text, admin) ==
    [id |-> id,
     author |-> IF admin THEN "Admin" ELSE "Guest User",
     text |-> text,
     isAdmin |-> admin]

\* videos.map(...) of handleAddComment
AppendComment(vs, videoId, c) ==
    [i \in 1..Len(vs) |->
        IF vs[i].id = videoId
        THEN [vs[i] EXCEPT !.comments = Append(@, c)]
        ELSE vs[i]]

handleAddComment(videoId, text, outcome) ==
    LET newComment    == NewComment(nextCommentId, text, isAdmin)
        updatedVideos == AppendComment(videos, videoId, newComment)
    IN  /\ videos' = updatedVideos
        /\ localStorage' = saveToLocalStorage(updatedVideos, outcome)
        /\ nextCommentId' = nextCommentId + 1
        /\ UNCHANGED <<blobs, session, activeVideo, pendingDeletion, uploadStatus,
                       uploads, deletions, timers, nextFileId, nextDeletion,
                       history, fixed>>

\* VideoPlayer.handleCommentSubmit: the form of the open player
handleCommentSubmit ==
    /\ activeVideo # Null
    /\ nextCommentId <= MaxComments
    /\ \E commentText \in CommentTexts, outcome \in SetItemOutcomes :
         IF Trim(commentText) = <<>>
         THEN outcome = "ok" /\ UNCHANGED vars
         ELSE handleAddComment(activeVideo, commentText, outcome)

\* ---------------------------------------------------------------- upload
\* The VideoMetadata literal of handleFileUpload.  `aiData.x || d` takes d
\* when the member is missing or an empty string; an array is never falsy.
HasMember(aiData, m) == m \in DOMAIN aiData.fields
NewVideoThrows(aiData) == aiData.kind = "null"     \* TypeError: aiData is null
NewVideo(fileId, file, aiData) ==
    [id |-> fileId,
     title |-> IF HasMember(aiData, "title") /\ aiData.fields.title # <<>>
               THEN aiData.fields.title ELSE file.name,
     description |-> IF HasMember(aiData, "description") /\ aiData.fields.description # ""
                     THEN aiData.fields.description ELSE "Uploaded video.",
     fileName |-> [id |-> fileId, extension |-> Pop(Split(file.name, Dot))],
     originalName |-> file.name,
     size |-> file.size,
     type |-> file.type,
     videoUrl |-> "",
     tags |-> IF HasMember(aiData, "tags") THEN aiData.fields.tags ELSE <<>>,
     comments |-> <<>>]

\* The App after its mount effect, in a browser where an earlier session
\* uploaded a file and the analysis fell back.
StockedFile == [name |-> ClipName, type |-> "video/x-matroska", size |-> MAX_FILE_SIZE]
Stocked ==
    << NewVideo(1, StockedFile, Fallback(ClipName)) >>
InitStocked ==
    /\ videos = Stocked
    /\ localStorage = JSONStringify(Stocked)
    /\ blobs = IdSet(Stocked)
    /\ isAdmin = FALSE
    /\ showLoginModal = FALSE
    /\ activeVideo = Null
    /\ pendingDeletion = Null
    /\ uploadStatus = Idle
    /\ uploads = {}
    /\ deletions = {}
    /\ timers = 0
    /\ nextFileId = Len(Stocked) + 1
    /\ nextCommentId = 1
    /\ nextDeletion = 1
    /\ destroyed = {}
    /\ alone = {}
    /\ faults \in BOOLEAN
    /\ call = NoCall

\* (a handler that never takes the not-admin branch)
NotAdminMutant == FALSE
\* if (!isAdmin)
NotAdmin == ~isAdmin

TypeAllowed(file) == file.type \in ALLOWED_MIME_TYPES

\* (a size check that also rejects a file of exactly the ceiling)
TooLargeMutant(file) == file.size >= MAX_FILE_SIZE
\* if (file.size > MAX_FILE_SIZE)
TooLarge(file) == file.size > MAX_FILE_SIZE

StorageError == Status(0, "error", "Critical storage error.")

\* handleFileUpload for the selected file, from the change event to the
\* first await.  (A change event without a file returns at once and changes
\* nothing.)  The status 10 set before the id is generated is overwritten by
\* 20 in the same synchronous run.
FileSelected(file) ==
    IF NotAdmin
    THEN /\ showLoginModal' = TRUE
         /\ UNCHANGED <<videos, stores, isAdmin, activeVideo, pendingDeletion,
                        uploadStatus, uploads, deletions, timers, counters,
                        history, fixed>>
    ELSE IF ~TypeAllowed(file)
    THEN /\ uploadStatus' = Status(0, "error", "Invalid file type.")
         /\ UNCHANGED <<videos, stores, session, activeVideo, pendingDeletion,
                        uploads, deletions, timers, counters, history, fixed>>
    ELSE IF TooLarge(file)
    THEN /\ uploadStatus' = Status(0, "error", "File too large (Max 100MB).")
         /\ UNCHANGED <<videos, stores, session, activeVideo, pendingDeletion,
                        uploads, deletions, timers, counters, history, fixed>>
    ELSE /\ nextFileId <= MaxUploads
         /\ uploadStatus' = Status(20, "uploading", "")
         /\ uploads' = uploads \cup
                {[fileId |-> nextFileId, file |-> file, videos |-> videos,
                  pc |-> "saveVideoBlob"]}
         /\ nextFileId' = nextFileId + 1
         /\ alone' = IF uploads = {} /\ deletions = {} THEN {nextFileId} ELSE {}
         /\ UNCHANGED <<videos, stores, session, activeVideo, pendingDeletion,
                        deletions, timers, nextCommentId, nextDeletion,
                        destroyed, fixed>>

handleFileUpload == \E file \in Files : FileSelected(file)

\* the await of saveVideoBlob ends
UploadBlobSaved(u) ==
    /\ u \in uploads /\ u.pc = "saveVideoBlob"
    /\ \E outcome \in AwaitOutcomes :
         IF outcome = "ok"
         THEN /\ blobs' = saveVideoBlob(blobs, u.fileId)
              /\ uploadStatus' = Status(40, "uploading", "")
              /\ uploads' = (uploads \ {u}) \cup {[u EXCEPT !.pc = "generateThumbnail"]}
         ELSE /\ uploadStatus' = StorageError
              /\ uploads' = uploads \ {u}
              /\ UNCHANGED blobs
    /\ alone' = {id \in alone : \E w \in uploads' : w.fileId = id}
    /\ UNCHANGED <<videos, localStorage, session, activeVideo, pendingDeletion,
                   deletions, timers, counters, destroyed, fixed>>

\* the await of generateThumbnail ends
UploadThumbnail(u) ==
    /\ u \in uploads /\ u.pc = "generateThumbnail"
    /\ \E outcome \in AwaitOutcomes :
         IF outcome = "ok"
         THEN /\ uploadStatus' = Status(60, "analyzing", "")
              /\ uploads' = (uploads \ {u}) \cup {[u EXCEPT !.pc = "analyzeVideoThumbnail"]}
         ELSE /\ uploadStatus' = StorageError
              /\ uploads' = uploads \ {u}
    /\ alone' = {id \in alone : \E w \in uploads' : w.fileId = id}
    /\ UNCHANGED <<videos, stores, session, activeVideo, pendingDeletion,
                   deletions, timers, counters, destroyed, fixed>>

\* the await of analyzeVideoThumbnail ends: the record is assembled,
\* prepended to the captured collection and saved
UploadAnalyzed(u) ==
    /\ u \in uploads /\ u.pc = "analyzeVideoThumbnail"
    /\ uploads' = uploads \ {u}
    /\ \E response \in Responses, outcome \in SetItemOutcomes :
         LET aiData        == analyzeVideoThumbnail(u.file.name, response)
             newVideo      == NewVideo(u.fileId, u.file, aiData)
             updatedVideos == <<newVideo>> \o u.videos
         IN  IF NewVideoThrows(aiData)
             THEN /\ outcome = "ok"
                  /\ uploadStatus' = StorageError
                  /\ UNCHANGED <<videos, localStorage, timers>>
             ELSE /\ videos' = updatedVideos
                  /\ localStorage' = saveToLocalStorage(updatedVideos, outcome)
                  /\ IF outcome = "ok"
                     THEN /\ uploadStatus' = Status(100, "complete", "")
                          /\ timers' = timers + 1
                     ELSE /\ uploadStatus' = StorageError
                          /\ UNCHANGED timers
    /\ alone' = alone \ {u.fileId}
    /\ UNCHANGED <<blobs, session, activeVideo, pendingDeletion,
                   deletions, counters, destroyed, fixed>>

\* setTimeout(() => setUploadStatus({progress: 0, status: 'idle'}), 2000)
IdleTimer ==
    /\ timers > 0
    /\ timers' = timers - 1
    /\ uploadStatus' = Idle
    /\ UNCHANGED <<videos, stores, session, activeVideo, pendingDeletion,
                   uploads, deletions, counters, history, fixed>>

\* -------------------------------------------------------------- deletion
\* the delete buttons of a card and of the player, and Purge All
RequestDeletion ==
    /\ isAdmin
    /\ \E id \in IdSet(videos) \cup ({activeVideo} \ {Null}) \cup
                 (IF Len(videos) > 0 THEN {All} ELSE {}) :
         pendingDeletion' = id
    /\ UNCHANGED <<videos, stores, session, activeVideo, uploadStatus,
                   uploads, deletions, timers, counters, history, fixed>>

CancelDeletion ==
    /\ pendingDeletion # Null
    /\ pendingDeletion' = Null
    /\ UNCHANGED <<videos, stores, session, activeVideo, uploadStatus,
                   uploads, deletions, timers, counters, history, fixed>>

\* videos.filter(v => v.id !== id)
Remove(vs, id) == SelectSeq(vs, LAMBDA v : v.id # id)

\* confirmDeletion, from the click to its await
confirmDeletion ==
    /\ isAdmin
    /\ pendingDeletion # Null
    /\ nextDeletion <= MaxDeletes
    /\ deletions' = deletions \cup
           {[n |-> nextDeletion, target |-> pendingDeletion, videos |-> videos,
             activeVideo |-> activeVideo]}
    /\ nextDeletion' = nextDeletion + 1
    /\ alone' = {}
    /\ UNCHANGED <<videos, stores, session, activeVideo, pendingDeletion,
                   uploadStatus, uploads, timers, nextFileId, nextCommentId,
                   destroyed, fixed>>

\* the await of clearAllBlobs / deleteVideoBlob ends
DeletionResolved(d) ==
    /\ d \in deletions
    /\ deletions' = deletions \ {d}
    /\ \E blobOutcome \in AwaitOutcomes, outcome \in SetItemOutcomes :
         IF blobOutcome = "rejects"
         THEN /\ outcome = "ok"
              /\ UNCHANGED <<videos, stores, activeVideo, pendingDeletion>>
         ELSE IF d.target = All
         THEN /\ outcome = "ok"
              /\ blobs' = clearAllBlobs(blobs)
              /\ videos' = <<>>
              /\ localStorage' = Absent                 \* removeItem
              /\ activeVideo' = Null
              /\ pendingDeletion' = Null
         ELSE LET updatedVideos == Remove(d.videos, d.target)
              IN  /\ blobs' = deleteVideoBlob(blobs, d.target)
                  /\ videos' = updatedVideos
                  /\ localStorage' = saveToLocalStorage(updatedVideos, outcome)
                  /\ IF outcome = "ok"
                     THEN /\ activeVideo' = IF d.activeVideo = d.target
                                            THEN Null ELSE activeVideo
                          /\ pendingDeletion' = Null
                     ELSE UNCHANGED <<activeVideo, pendingDeletion>>
    /\ destroyed' = destroyed \cup (IdSet(Persisted) \ IdSet(Persisted'))
    /\ UNCHANGED <<session, uploadStatus, uploads, timers, counters, alone, fixed>>

\* ------------------------------------------------- the analysis client alone
\* File names of up to MaxNameLen characters with a base and at most one
\* extension, and the name of the scenario
Chars == {"a", Dot}
Dots(s) == Cardinality({i \in 1..Len(s) : s[i] = Dot})
Names ==
    {n \in UNION {[1..k -> Chars] : k \in 1..MaxNameLen} : n[1] # Dot /\ Dots(n) <= 1}
        \cup {ClipName}

InitAnalyze ==
    /\ Mounted
    /\ faults = FALSE
    /\ \E n \in Names, r \in Responses :
         call = [fileName |-> n, response |-> r, done |-> FALSE, result |-> Throws]

AnalyzeCall ==
    /\ ~call.done
    /\ call.response.kind # "none"
    /\ call' = [call EXCEPT !.done = TRUE,
                            !.result = analyzeVideoThumbnail(call.fileName, call.response)]
    /\ UNCHANGED <<videos, stores, session, activeVideo, pendingDeletion, uploadStatus,
                   uploads, deletions, timers, counters, history, faults>>

\* ------------------------------------------------------- specifications
SessionActions ==
    \/ OpenLoginModal
    \/ CancelLogin
    \/ handleLogin
    \/ handleLogout

UploadActions ==
    \/ handleFileUpload
    \/ \E u \in uploads : UploadBlobSaved(u)
    \/ \E u \in uploads : UploadThumbnail(u)
    \/ \E u \in uploads : UploadAnalyzed(u)
    \/ IdleTimer

PlayerActions ==
    \/ handleOpenVideo
    \/ handleCloseVideo
    \/ handleCommentSubmit

DeletionActions ==
    \/ RequestDeletion
    \/ CancelDeletion
    \/ confirmDeletion
    \/ \E d \in deletions : DeletionResolved(d)

Next == SessionActions \/ UploadActions \/ PlayerActions \/ DeletionActions

\* A whole session.
Spec == Init /\ [][Next]_vars

\* A session in which the user logs in and out and uploads.
NextUpload == SessionActions \/ UploadActions
SpecUpload == Init /\ [][NextUpload]_vars

\* A session in which the user also opens videos and comments on them.
NextComments == SessionActions \/ UploadActions \/ PlayerActions
SpecComments == Init /\ [][NextComments]_vars
\* ... and no store call or awaited step ever fails.
SpecCommentsReliable == InitReliable /\ [][NextComments]_vars

\* A session in which the user also deletes videos.
NextDeletion == SessionActions \/ UploadActions \/ DeletionActions
SpecDeletion == Init /\ [][NextDeletion]_vars
\* ... and no store call or awaited step ever fails.
SpecDeletionReliable == InitReliable /\ [][NextDeletion]_vars

\* A session in a browser that already holds a video, in which the user
\* logs in and out, opens the video, comments on it and deletes it.
NextGallery == SessionActions \/ PlayerActions \/ DeletionActions
SpecGallery == InitStocked /\ [][NextGallery]_vars

\* Calls of analyzeVideoThumbnail, one per file name and remote behaviour.
SpecAnalyze == InitAnalyze /\ [][AnalyzeCall]_vars


\* ---------------------------------------------------------------- claims
IsPrefix(a, b) == Len(a) <= Len(b) /\ SubSeq(b, 1, Len(a)) = a
IsSequence(x) == DOMAIN x = 1..Len(x)
\* The ids and comment sequences of the records other than x, in order
Others(vs, x) ==
    LET rest == Remove(vs, x)
    IN  [i \in 1..Len(rest) |-> [id |-> rest[i].id, comments |-> rest[i].comments]]
\* A record without its comments
Fields(v) == [v EXCEPT !.comments = <<>>]
\* This step ends the handleFileUpload call u.
Finished(u) == u \in uploads /\ \A w \in uploads' : w.fileId # u.fileId
\* This step is u's report of complete.
Completed(u) ==
    /\ Finished(u)
    /\ uploadStatus' = Status(100, "complete", "")
    /\ timers' = timers + 1
\* This step ends the confirmDeletion call d.
Ended(d) == d \in deletions /\ d \notin deletions'

\* C1: whenever no upload and no deletion handler is part-way through its
\* steps, every video id in the persisted metadata collection has a blob in
\* the blob store.
C1_MetadataHasBlob ==
    (uploads = {} /\ deletions = {}) => IdSet(Persisted) \subseteq blobs

\* C2: comments are append-only: the comment sequence of a video that stays
\* in the persisted collection over a step is a prefix of its comment
\* sequence after the step.
C2_CommentsAppendOnly ==
    [][\A i \in 1..Len(Persisted), j \in 1..Len(Persisted') :
          Persisted[i].id = Persisted'[j].id
              => IsPrefix(Persisted[i].comments, Persisted'[j].comments)]_vars

\* C3: a record is created exactly once: no id that a deletion removed from
\* the persisted collection is in it again, and a record that stays in the
\* collection over a step keeps every field other than comments.
C3_CreatedOnce ==
    [][/\ IdSet(Persisted') \cap destroyed' = {}
       /\ \A i \in 1..Len(Persisted), j \in 1..Len(Persisted') :
             Persisted[i].id = Persisted'[j].id
                 => Fields(Persisted[i]) = Fields(Persisted'[j])]_vars

\* C4: when the deletion of video X completes, X's blob is absent, X's entry
\* is absent from the persisted collection, and every other record is there
\* with the id and the comment sequence it had in the persisted collection
\* just before the metadata rewrite.
C4_DeletionFrame ==
    [][\A d \in deletions :
          (Ended(d) /\ d.target # All)
              => /\ d.target \notin blobs'
                 /\ d.target \notin IdSet(Persisted')
                 /\ Others(Persisted', d.target) = Others(Persisted, d.target)]_vars

\* C5: deletion is atomic: when a deletion attempt ends, succeeded or failed,
\* each targeted video that had a blob and a metadata entry has both still,
\* or neither.
C5_DeletionAtomic ==
    [][\A d \in deletions :
          Ended(d) =>
              \A x \in (IF d.target = All THEN IdSet(Persisted) ELSE {d.target}) :
                  (x \in blobs /\ x \in IdSet(Persisted))
                      => (x \in blobs' <=> x \in IdSet(Persisted'))]_vars

\* C6: an upload invoked while the session is not admin changes neither the
\* blob store nor the persisted collection nor the in-memory collection,
\* starts no pipeline and leaves the upload status as it was.
C6_UnauthorizedNoEffect ==
    [][(~isAdmin /\ handleFileUpload)
          => UNCHANGED <<blobs, localStorage, videos, uploads, uploadStatus>>]_vars

C6_Witness ==
    /\ ~isAdmin
    /\ showLoginModal
    /\ Len(Persisted) > 0
    /\ blobs # {}

\* C7: an admin upload of a file whose type is outside the allow-list ends
\* in the error state with the type error, whatever the size; one of an
\* allowed type larger than 100 MiB ends with the size error; both leave
\* the stores unchanged; a file of an allowed type of at most 100 MiB
\* (exactly 100 MiB included) starts uploading.
C7_ValidationErrors ==
    [][\A f \in Files :
          (isAdmin /\ FileSelected(f)) =>
              IF f.type \notin {"video/mp4", "video/webm", "video/quicktime",
                                "video/x-matroska"}
              THEN /\ uploadStatus' = Status(0, "error", "Invalid file type.")
                   /\ UNCHANGED <<blobs, localStorage, videos, uploads>>
              ELSE IF f.size > 104857600
              THEN /\ uploadStatus' = Status(0, "error", "File too large (Max 100MB).")
                   /\ UNCHANGED <<blobs, localStorage, videos, uploads>>
              ELSE /\ uploadStatus' = Status(20, "uploading", "")
                   /\ \E u \in uploads' : u \notin uploads /\ u.file = f]_vars

C7_Witness ==
    /\ isAdmin
    /\ uploadStatus = Status(0, "error", "File too large (Max 100MB).")
    /\ Len(Persisted) > 0
    /\ Persisted[1].size = 104857600

\* C8: when an upload reports complete, the new record's id is a key of the
\* blob store and the id of an entry of the persisted collection, and that
\* entry's tags and comments are sequences.
C8_CompleteInBothStores ==
    [][\A u \in uploads :
          Completed(u) =>
              /\ u.fileId \in blobs'
              /\ \E j \in 1..Len(Persisted') :
                    /\ Persisted'[j].id = u.fileId
                    /\ IsSequence(Persisted'[j].tags)
                    /\ IsSequence(Persisted'[j].comments)]_vars

\* C9: when the remote call fails, or its response is not a JSON object
\* with title, description and tags, analyze returns the fallback: the file
\* name without its extension, the fixed placeholder, and the tag "video".
WithoutExtension(name) ==
    LET parts == Split(name, Dot)
    IN  IF Len(parts) = 1 THEN name
        ELSE SubSeq(name, 1, Len(name) - Len(Pop(parts)) - 1)
C9_FallbackOnAnyDeviation ==
    (call.done /\ (call.response.kind = "reject" \/ call.response.text # "full"))
        => call.result =
              [kind |-> "object",
               fields |-> [title |-> WithoutExtension(call.fileName),
                           description |-> "No description generated.",
                           tags |-> <<"video">>]]

\* C10: an upload that reports complete, and ran from its start with no
\* other upload and no deletion in flight, leaves the persisted collection
\* with the new record first and the records that were persisted before
\* after it, in their order.
C10_NewestFirst ==
    [][\A u \in uploads :
          (Completed(u) /\ u.fileId \in alone)
              => /\ Persisted'[1].id = u.fileId
                 /\ SelectSeq(Ids(Persisted'), LAMBDA x : x \in IdSet(Persisted))
                        = Ids(Persisted)]_vars

\* The comments of a collection
Comments(vs) ==
    UNION {{vs[i].comments[k] : k \in 1..Len(vs[i].comments)} : i \in 1..Len(vs)}
\* Every comment the program holds: in memory, persisted, or in the
\* collection captured by a suspended handler
Known ==
    Comments(videos) \cup Comments(Persisted)
        \cup UNION {Comments(u.videos) : u \in uploads}
        \cup UNION {Comments(d.videos) : d \in deletions}

\* C11: a comment gets its admin flag and its author label from the session
\* role at the moment it is posted (not admin: flag false, "Guest User";
\* admin: flag true, "Admin"), and no step, a login or logout included,
\* changes the author or the flag of a comment that exists already.
C11_RoleFixedAtPost ==
    [][/\ \A c \in Known' :
             c.id = nextCommentId
                 => /\ c.isAdmin = isAdmin
                    /\ c.author = IF isAdmin THEN "Admin" ELSE "Guest User"
       /\ \A c \in Known, d \in Known' :
             c.id = d.id => (c.author = d.author /\ c.isAdmin = d.isAdmin)]_vars

\* a comment posted as admin is persisted and the session has logged out since
C11_Witness ==
    /\ ~isAdmin
    /\ \E c \in Comments(Persisted) : c.isAdmin /\ c.author = "Admin"

\* C12: every comment in the persisted collection has a text that is
\* non-empty and has no leading or trailing whitespace: a submitted text is
\* either not stored (empty or only whitespace) or stored trimmed.
C12_TextTrimmed ==
    \A c \in Comments(Persisted) : c.text # <<>> /\ Trim(c.text) = c.text

\* C13: no two upload pipelines are in flight at the same time: while one
\* upload is between its first progress report and its complete or error
\* report, a second file selection does not start another pipeline.
C13_OneUploadAtATime == Cardinality(uploads) <= 1

\* C14: from the moment an upload passes validation until it reports
\* complete, the progress shown never decreases and the status never goes
\* back to idle, also when the upload starts within the display delay of the
\* previous upload's complete report.  Stated for an upload that runs with no
\* other upload in flight, over every step that leaves it in flight or is its
\* complete report, and is not the selection of another file.
C14_ProgressMonotonic ==
    [][\A u \in uploads :
          (u.fileId \in alone /\ ~handleFileUpload /\ (~Finished(u) \/ Completed(u)))
              => /\ uploadStatus'.progress >= uploadStatus.progress
                 /\ uploadStatus'.status # "idle"]_vars

\* C15: when the blob write, the thumbnail step, the record assembly or the
\* metadata write of an upload throws, the upload ends in the error state
\* with the generic storage error, the persisted collection is as it was,
\* the in-memory collection has no record for the new id, and the blob
\* bytes already written stay.
C15_FailedUploadLeavesNoRecord ==
    [][\A u \in uploads :
          (Finished(u) /\ ~Completed(u))
              => /\ uploadStatus' = Status(0, "error", "Critical storage error.")
                 /\ Persisted' = Persisted
                 /\ u.fileId \notin IdSet(videos')
                 /\ (u.fileId \in blobs => u.fileId \in blobs')]_vars

\* C16: whenever no handler is part-way through its steps, the in-memory
\* collection equals the collection stored under the metadata key (an
\* absent key is the empty collection), a failed metadata write included.
C16_MemoryEqualsPersisted ==
    (uploads = {} /\ deletions = {}) => videos = Persisted

====
